---- MODULE Spec2Model ----
(***************************************************************************)
(* Atticus Chat serverless endpoints: the chat proxy (api/claude.js, here   *)
(* src/unnamed/part_000), the profile intake (src/api/profile.js) and the   *)
(* helpers they call.                                                       *)
(*                                                                          *)
(* JavaScript strings that the code cuts, searches or decodes (the          *)
(* Authorization header, bearer tokens, e-mail addresses, user ids) are     *)
(* sequences of one-character strings.  Strings that are only compared      *)
(* whole (tier names, HTTP methods, messages) are TLA+ strings.             *)
(***************************************************************************)
EXTENDS Integers, Sequences, FiniteSets, TLC

----------------------------------------------------------------------------
(* JavaScript values *)

\* undefined in a slot that otherwise holds a character sequence
Undefined == <<"undefined">>

\* undefined in a slot that otherwise holds a TLA+ string
UNDEF == "<undefined>"

\* JS truthiness of a whole-string value: undefined and '' are falsy
Truthy(v) == v # UNDEF /\ v # ""

\* JS truthiness of a character-sequence value
TruthySeq(s) == s # Undefined /\ Len(s) > 0

\* String.prototype.startsWith
StartsWith(s, p) == Len(s) >= Len(p) /\ SubSeq(s, 1, Len(p)) = p

\* String.prototype.endsWith
EndsWith(s, p) == Len(s) >= Len(p) /\ SubSeq(s, Len(s) - Len(p) + 1, Len(s)) = p

\* String.prototype.slice(n), n >= 0
Slice(s, n) == SubSeq(s, n + 1, Len(s))

\* String.prototype.includes for a one-character needle
Includes(s, c) == \E i \in 1..Len(s) : s[i] = c

\* index of the first c in s at or after position from, Len(s)+1 when none
RECURSIVE IndexFrom(_, _, _)
IndexFrom(s, c, from) ==
    IF from > Len(s) THEN Len(s) + 1
    ELSE IF s[from] = c THEN from
    ELSE IndexFrom(s, c, from + 1)

\* const [a, b] = s.split(':') : the first two pieces, Undefined when missing
SplitFirstTwo(s) ==
    LET i == IndexFrom(s, ":", 1)
        j == IndexFrom(s, ":", i + 1)
    IN  IF i > Len(s) THEN <<s, Undefined>>
        ELSE <<SubSeq(s, 1, i - 1), SubSeq(s, i + 1, j - 1)>>

----------------------------------------------------------------------------
(* Buffer.from(token, 'base64').toString('utf-8') *)

B64Chars ==
    <<"A","B","C","D","E","F","G","H","I","J","K","L","M","N","O","P","Q","R","S","T","U","V","W","X","Y","Z","a","b","c","d","e","f","g","h","i","j","k","l","m","n","o","p","q","r","s","t","u","v","w","x","y","z","0","1","2","3","4","5","6","7","8","9","+","/">>

\* printable ASCII, code points 32..126 (the double quote, the backslash and
\* the backtick are written as placeholders)
AsciiPrintable ==
    <<" ","!","<dquote>","#","$","%","&","'","(",")","*","+",",","-",".","/","0","1","2","3","4","5","6","7","8","9",":",";","<","=",">","?","@","A","B","C","D","E","F","G","H","I","J","K","L","M","N","O","P","Q","R","S","T","U","V","W","X","Y","Z","[","<backslash>","]","^","_","<backtick>","a","b","c","d","e","f","g","h","i","j","k","l","m","n","o","p","q","r","s","t","u","v","w","x","y","z","{","|","}","~">>

\* value of a base64 digit (standard and URL-safe alphabets), -1 for any other
unbase64(c) ==
    IF \E i \in 1..Len(B64Chars) : B64Chars[i] = c
    THEN (CHOOSE i \in 1..Len(B64Chars) : B64Chars[i] = c) - 1
    ELSE IF c = "-" THEN 62
    ELSE IF c = "_" THEN 63
    ELSE -1

\* the 6-bit digits of s from position i: decoding stops at the first '=',
\* any other character outside the alphabet is skipped
RECURSIVE Sextets(_, _)
Sextets(s, i) ==
    IF i > Len(s) \/ s[i] = "=" THEN <<>>
    ELSE IF unbase64(s[i]) < 0 THEN Sextets(s, i + 1)
    ELSE <<unbase64(s[i])>> \o Sextets(s, i + 1)

\* bytes of a digit sequence: 4 digits give 3 bytes, a tail of 3 gives 2,
\* a tail of 2 gives 1, a tail of 1 gives none
RECURSIVE BytesOf(_)
BytesOf(d) ==
    IF Len(d) < 2 THEN <<>>
    ELSE IF Len(d) = 2 THEN <<d[1] * 4 + d[2] \div 16>>
    ELSE IF Len(d) = 3
         THEN <<d[1] * 4 + d[2] \div 16, (d[2] % 16) * 16 + d[3] \div 4>>
    ELSE <<d[1] * 4 + d[2] \div 16, (d[2] % 16) * 16 + d[3] \div 4,
           (d[3] % 4) * 64 + d[4]>> \o BytesOf(SubSeq(d, 5, Len(d)))

\* one decoded byte as a character: printable ASCII as itself, a control
\* character or a byte of a non-ASCII sequence as a placeholder that is never
\* ':' (UTF-8 keeps every byte >= 128 out of the ASCII range)
ByteChar(b) ==
    IF b >= 32 /\ b <= 126 THEN AsciiPrintable[b - 31]
    ELSE IF b < 128 THEN "<ctl>"
    ELSE "<U+FFFD>"

Base64Decode(s) ==
    LET bytes == BytesOf(Sextets(s, 1))
    IN  [i \in 1..Len(bytes) |-> ByteChar(bytes[i])]

----------------------------------------------------------------------------
(* String literals of the code and the concrete inputs of the model *)

\* 'Bearer ', 7 characters
BearerPrefix == <<"B","e","a","r","e","r"," ">>
\* '@atticusconseil.com', 19 characters
AtticusConseilDomain == <<"@","a","t","t","i","c","u","s","c","o","n","s","e","i","l",".","c","o","m">>
\* '@atticus.com', 12 characters
AtticusDomain == <<"@","a","t","t","i","c","u","s",".","c","o","m">>

\* 'u1', 2 characters
IdU1 == <<"u","1">>
\* 'u2', 2 characters
IdU2 == <<"u","2">>
\* 'a@atticus.com', 13 characters
EmailAlice == <<"a","@","a","t","t","i","c","u","s",".","c","o","m">>
\* 'bob@gmail.com', 13 characters
EmailBob == <<"b","o","b","@","g","m","a","i","l",".","c","o","m">>
\* 'c@atticusconseil.com', 20 characters
EmailCarol == <<"c","@","a","t","t","i","c","u","s","c","o","n","s","e","i","l",".","c","o","m">>
\* 'sess_1', 6 characters
TokSession == <<"s","e","s","s","_","1">>
\* 'u:1', 3 characters
TokColon == <<"u",":","1">>
\* 'YUBhdHRpY3VzLmNvbTp1MQ==' = base64 of 'a@atticus.com:u1', 24 characters
TokComposite == <<"Y","U","B","h","d","H","R","p","Y","3","V","z","L","m","N","v","b","T","p","1","M","Q","=","=">>
\* 'ZXZlQGdtYWlsLmNvbTp1MQ==' = base64 of 'eve@gmail.com:u1', 24 characters
TokMismatch == <<"Z","X","Z","l","Q","G","d","t","Y","W","l","s","L","m","N","v","b","T","p","1","M","Q","=","=">>
\* 'OnUxOnBhZHBhZHBhZHBhZA==' = base64 of ':u1:padpadpadpad', 24 characters
TokNoEmail == <<"O","n","U","x","O","n","B","h","Z","H","B","h","Z","H","B","h","Z","H","B","h","Z","A","=","=">>
\* 'user_2NNEqL2nrIRdJ194ndJqAHwEfxC', 32 characters
TokOpaque == <<"u","s","e","r","_","2","N","N","E","q","L","2","n","r","I","R","d","J","1","9","4","n","d","J","q","A","H","w","E","f","x","C">>
\* '', 0 characters
HdrEmpty == <<>>
\* 'Basic dTE6cHc=', 14 characters
HdrBasic == <<"B","a","s","i","c"," ","d","T","E","6","c","H","c","=">>
\* 'bearer sess_1', 13 characters
HdrLower == <<"b","e","a","r","e","r"," ","s","e","s","s","_","1">>

----------------------------------------------------------------------------
(* Objects *)

\* {} : the object with no own property
EmptyObject == [k \in {} |-> UNDEF]

\* an object-valued slot that holds undefined
NoObject == [isUndefined |-> TRUE]

\* o || {}
OrEmpty(o) == IF "isUndefined" \in DOMAIN o THEN EmptyObject ELSE o

\* o.k for a string-valued property: undefined when o has no property k
Prop(o, k) == IF k \in DOMAIN o THEN o[k] ELSE UNDEF

\* truthiness of o.k for a boolean-valued property
Flag(o, k) == k \in DOMAIN o /\ o[k] = TRUE

\* what every object literal inherits from Object.prototype; each is a
\* function (or, for __proto__, an object), so each is truthy
ObjectPrototypeKeys ==
    {"constructor", "toString", "toLocaleString", "valueOf", "hasOwnProperty",
     "isPrototypeOf", "propertyIsEnumerable", "__proto__", "__defineGetter__",
     "__defineSetter__", "__lookupGetter__", "__lookupSetter__"}

----------------------------------------------------------------------------
(* User tier *)

TIER_CONFIG ==
    [free    |-> [dailyLimit |-> 12, name |-> "Gratuit"],
     beta    |-> [dailyLimit |-> 25, name |-> "Beta"],
     premium |-> [dailyLimit |-> 25, name |-> "Premium"]]

\* user.primaryEmailAddress?.emailAddress || ''
EmailOrEmpty(user) == IF user.email = Undefined THEN <<>> ELSE user.email

\* the "beta by e-mail domain or betaAccess flag" test of getUserTier
BetaByDomainOrFlag(user) ==
    \/ EndsWith(EmailOrEmpty(user), AtticusConseilDomain)
    \/ EndsWith(EmailOrEmpty(user), AtticusDomain)
    \/ Flag(OrEmpty(user.publicMetadata), "betaAccess")

\* a getUserTier that consults the public metadata before the private one
getUserTierPublicFirst(user) ==
    LET publicMetadata  == OrEmpty(user.publicMetadata)
        privateMetadata == OrEmpty(user.privateMetadata)
    IN  IF Truthy(Prop(publicMetadata, "tier")) THEN Prop(publicMetadata, "tier")
        ELSE IF Truthy(Prop(privateMetadata, "tier")) THEN Prop(privateMetadata, "tier")
        ELSE IF BetaByDomainOrFlag(user) THEN "beta"
        ELSE "free"

getUserTier(user) ==
    LET publicMetadata  == OrEmpty(user.publicMetadata)
        privateMetadata == OrEmpty(user.privateMetadata)
    IN  IF Truthy(Prop(privateMetadata, "tier")) THEN Prop(privateMetadata, "tier")
        ELSE IF Truthy(Prop(publicMetadata, "tier")) THEN Prop(publicMetadata, "tier")
        ELSE IF BetaByDomainOrFlag(user) THEN "beta"
        ELSE "free"

----------------------------------------------------------------------------
(* Usage tracking *)

\* TIER_CONFIG[userTier]: an own entry, a member inherited from
\* Object.prototype (truthy, with no dailyLimit), or undefined
TierConfigLookup(userTier) ==
    IF userTier \in DOMAIN TIER_CONFIG
    THEN [kind |-> "config", dailyLimit |-> TIER_CONFIG[userTier].dailyLimit]
    ELSE IF userTier \in ObjectPrototypeKeys THEN [kind |-> "inherited"]
    ELSE [kind |-> "undefined"]

\* const currentUsage = 0
currentUsage == 0

\* checkUsageLimit never reads a store; nothing in its try block can throw,
\* so the 'Usage check failed' result cannot arise.  A dailyLimit of
\* undefined makes currentUsage >= dailyLimit false and leaves usage.limit
\* undefined (the usage object then has no limit field).
checkUsageLimit(userId, userTier) ==
    LET tierConfig == TierConfigLookup(userTier)
    IN  IF tierConfig.kind = "undefined"
        THEN [allowed |-> FALSE, reason |-> [text |-> "Invalid user tier"]]
        ELSE IF tierConfig.kind = "config" /\ currentUsage >= tierConfig.dailyLimit
        THEN [allowed |-> FALSE,
              reason  |-> [text |-> "Daily limit of N messages exceeded",
                           N |-> tierConfig.dailyLimit],
              usage   |-> [used |-> currentUsage, limit |-> tierConfig.dailyLimit]]
        ELSE IF tierConfig.kind = "config"
        THEN [allowed |-> TRUE,
              usage   |-> [used |-> currentUsage, limit |-> tierConfig.dailyLimit]]
        ELSE [allowed |-> TRUE, usage |-> [used |-> currentUsage]]

\* incrementUsage only writes a console line and returns true
incrementUsage(userId) == [returned |-> TRUE, logged |-> <<"Usage incremented", userId>>]

----------------------------------------------------------------------------
(* State *)

VARIABLES
    env,      \* CLAUDE_API_KEY (read once at module load) and NODE_ENV
    req,      \* the chat request being handled
    pc,       \* where the chat handler stands: the await it is suspended on
    au,       \* locals of authenticateUser: token, user, pending lookup
    hl,       \* locals of handler: authResult, usageCheck, provider status
    trace,    \* what this invocation has done so far, in order
    res,      \* the response sent
    nreq,     \* chat requests received so far
    tape,     \* what the identity provider and the LLM provider answered
              \* to the first request, in order
    tpos,     \* next answer of tape to be given again to a later request
    first,    \* the first request and what was observed of its handling
    tUser,    \* getUserTier: the user passed
    tTier,    \* getUserTier: the tier returned
    uCall,    \* usage limiter: the last operation called
    uResult,  \* usage limiter: what it returned
    uCount,   \* usage limiter: operations called so far
    uLogged,  \* usage limiter: 'Usage incremented' console lines so far
    pReq,     \* profile intake: the request
    pRes,     \* profile intake: the response
    pNow,     \* profile intake: the clock read by new Date()
    jObj,     \* safeJSONString: the profile object passed
    jOut      \* safeJSONString: the string returned

vars == <<env, req, pc, au, hl, trace, res, nreq, tape, tpos, first,
          tUser, tTier, uCall, uResult, uCount, uLogged, pReq, pRes, pNow,
          jObj, jOut>>

chatVars  == <<env, req, pc, au, hl, trace, res, nreq, tape, tpos, first>>
tierVars  == <<tUser, tTier>>
usageVars == <<uCall, uResult, uCount, uLogged>>
profVars  == <<pReq, pRes, pNow>>
jsonVars  == <<jObj, jOut>>
otherVars == <<tierVars, usageVars, profVars, jsonVars>>

----------------------------------------------------------------------------
(* Bounds *)

\* chat requests per behaviour: the first is arbitrary, each later one is the
\* first with another client-sent tier, answered by the providers as before
MaxRequests == 2

\* Check / Increment operations per behaviour of the usage limiter
MaxOps == 3

\* readings of the clock by the profile intake
MaxClock == 2

\* top-level keys of a profile object passed to safeJSONString
MaxKeys == 21

\* characters by which the first value of a profile object is longer than
\* the other values
MaxExtra == 9

----------------------------------------------------------------------------
(* Identity provider (Clerk): the user directory *)

NoUser == [isUndefined |-> TRUE]

\* the record users.getUser(id) resolves to when it resolves
ClerkUser(id) ==
    IF id = IdU1
    THEN [id |-> id, firstName |-> "Alice", email |-> EmailAlice,
          publicMetadata |-> NoObject, privateMetadata |-> EmptyObject]
    ELSE IF id = IdU2
    THEN [id |-> id, firstName |-> "Bob", email |-> EmailBob,
          publicMetadata |-> [tier |-> "free"],
          privateMetadata |-> [tier |-> "premium"]]
    ELSE IF id = TokOpaque
    THEN [id |-> id, firstName |-> "Carol", email |-> EmailCarol,
          publicMetadata |-> [tier |-> "gold"], privateMetadata |-> NoObject]
    ELSE [id |-> id, firstName |-> "Dan", email |-> Undefined,
          publicMetadata |-> EmptyObject, privateMetadata |-> NoObject]

\* the statuses the LLM provider answers with in the model
ProviderStatuses == {200, 404, 500, 503}

\* every answer a provider call can settle with, by kind of call
AllOutcomes(kind) ==
    CASE kind = "getSession" ->
            {[kind |-> kind, r |-> "throw"], [kind |-> kind, r |-> "null"],
             [kind |-> kind, r |-> "session", userId |-> IdU1]}
      [] kind = "getUser" ->
            {[kind |-> kind, r |-> "throw"], [kind |-> kind, r |-> "user"]}
      [] kind = "verifyToken" ->
            {[kind |-> kind, r |-> "throw"], [kind |-> kind, r |-> "nosub"],
             [kind |-> kind, r |-> "sub", sub |-> IdU2]}
      [] kind = "fetch" ->
            {[kind |-> kind, r |-> "throw"]} \cup
            {[kind |-> kind, r |-> "response", status |-> st] :
                st \in ProviderStatuses}
      [] kind = "text" ->
            {[kind |-> kind, r |-> "throw"], [kind |-> kind, r |-> "ok"]}
      [] kind = "json" ->
            {[kind |-> kind, r |-> "throw"], [kind |-> kind, r |-> "ok"]}

\* the answers open to a call now: any for the first request; for a later
\* request the answer the first one got at the same point, while the calls
\* still match
Outcomes(kind) ==
    IF nreq > 1 /\ tpos <= Len(tape) /\ tape[tpos].kind = kind
    THEN {tape[tpos]}
    ELSE AllOutcomes(kind)

Answered(o) ==
    IF nreq = 1
    THEN tape' = Append(tape, o) /\ tpos' = tpos
    ELSE tape' = tape /\ tpos' = tpos + 1

----------------------------------------------------------------------------
(* Chat requests *)

Methods == {"POST", "GET", "OPTIONS"}

AuthHeaders ==
    {Undefined, HdrEmpty, HdrBasic, HdrLower} \cup
    {BearerPrefix \o t :
        t \in {TokSession, TokColon, TokComposite, TokMismatch, TokNoEmail,
               TokOpaque}}

\* what a client may send as its tier: the body's userTier and the
\* x-user-tier header
ClientTiers ==
    {[userTier |-> UNDEF, xUserTier |-> UNDEF],
     [userTier |-> "premium", xUserTier |-> UNDEF],
     [userTier |-> UNDEF, xUserTier |-> "premium"]}

NoMessages   == [kind |-> "undefined"]
NullMessages == [kind |-> "null"]
OneMessage   == [kind |-> "array", items |-> <<[role |-> "user", content |-> "Bonjour"]>>]

\* req.body is undefined
NoBody ==
    [present |-> FALSE, messages |-> NoMessages, model |-> UNDEF,
     max_tokens |-> UNDEF, profile |-> NoObject, system |-> UNDEF,
     userTier |-> UNDEF]

\* {}
EmptyBody == [NoBody EXCEPT !.present = TRUE]

BaseBodies ==
    {NoBody,
     [EmptyBody EXCEPT !.messages = NullMessages],
     [EmptyBody EXCEPT !.messages = OneMessage, !.model = "claude-3-haiku",
                       !.max_tokens = "100", !.system = "Be brief",
                       !.profile = [goal |-> "retirement"]]}

\* the body b with the client-sent userTier t (a body that carries a userTier
\* is a body)
WithUserTier(b, t) ==
    IF t = UNDEF THEN [b EXCEPT !.userTier = UNDEF]
    ELSE [b EXCEPT !.present = TRUE, !.userTier = t]

\* the requests a behaviour may start with: a POST with any header, body
\* and client-sent tier, or a bare GET or OPTIONS
FirstRequests ==
    {[method |-> m, authorization |-> a, xUserTier |-> c.xUserTier,
      body |-> WithUserTier(b, c.userTier)] :
        m \in {"POST"}, a \in AuthHeaders, b \in BaseBodies, c \in ClientTiers}
    \cup
    {[method |-> m, authorization |-> Undefined, xUserTier |-> UNDEF,
      body |-> NoBody] : m \in Methods \ {"POST"}}

NoRequest  == [method |-> "none"]
NoResponse == [status |-> 0]
NoFirst    == [none |-> TRUE]

Pending == [success |-> FALSE, pending |-> TRUE]

AuInit == [token |-> Undefined, user |-> NoUser, lookupId |-> Undefined,
           email |-> Undefined]

HlInit == [authResult |-> Pending, usageCheck |-> Pending, status |-> 0,
           system |-> Pending, updatedUsage |-> Pending]

----------------------------------------------------------------------------
(* Chat proxy: helpers of the handler *)

\* req.body || {}
BodyOrEmpty(b) == IF b.present THEN b ELSE EmptyBody

\* a header test that only asks for a header
HeaderRejectedWhenMissing(authHeader) == ~TruthySeq(authHeader)

\* !authHeader || !authHeader.startsWith('Bearer ')
HeaderRejected(authHeader) ==
    ~TruthySeq(authHeader) \/ ~StartsWith(authHeader, BearerPrefix)

\* lines 119-133 of authenticateUser: the result for the user found, if any
AuthResultOf(user) ==
    IF user = NoUser
    THEN [success |-> FALSE, error |-> "Invalid authentication token", status |-> 401]
    ELSE [success |-> TRUE, user |-> user, userTier |-> getUserTier(user),
          userId |-> user.id]

\* where the fallback (Try 3 / Try 4) goes for a token, up to its first await:
\* a colon-free token longer than 20 characters is base64-decoded and, when
\* the decoded text holds ':' with a non-empty e-mail and user id, that user
\* is fetched; when it does not, nothing is fetched at all; any other token
\* is fetched as a user id
FallbackEntry(token) ==
    IF ~Includes(token, ":") /\ Len(token) > 20
    THEN LET decoded == Base64Decode(token)
             parts   == SplitFirstTwo(decoded)
         IN  IF Includes(decoded, ":") /\ TruthySeq(parts[1]) /\ TruthySeq(parts[2])
             THEN [pc |-> "getUser3", lookupId |-> parts[2], email |-> parts[1]]
             ELSE [pc |-> "return", lookupId |-> Undefined, email |-> Undefined]
    ELSE [pc |-> "getUser4", lookupId |-> token, email |-> Undefined]

\* a handler that lets the client's tier (body, then header) override
HandlerTierFromClient(authResult, request) ==
    IF Truthy(BodyOrEmpty(request.body).userTier)
    THEN BodyOrEmpty(request.body).userTier
    ELSE IF Truthy(request.xUserTier) THEN request.xUserTier
    ELSE authResult.userTier

\* the tier the handler passes on: the one authenticateUser resolved.  The
\* body's userTier is bound to clientUserTier and never read, and the
\* x-user-tier header is never read.
HandlerTier(authResult, request) == authResult.userTier

\* a key test that takes only the empty string for a missing key
ApiKeyEmpty(key) == key = ""

\* !CLAUDE_API_KEY
ApiKeyMissing(key) == ~Truthy(key)

\* a resp.ok with no upper end
RespOkNoUpperEnd(status) == status >= 200

\* resp.ok
RespOk(status) == status >= 200 /\ status <= 299

\* the provider's status relayed as it came
ClientStatusRelayed(status) == status

\* resp.status >= 500 ? 500 : resp.status

ClientStatus(status) == IF status >= 500 THEN 500 ELSE status

\* resp.status >= 500 ? 'Internal server error' : 'API request failed'
ClientError(status) ==
    IF status >= 500 THEN "Internal server error" ELSE "API request failed"

\* the development-only log line reads messages.length: a TypeError when the
\* body's messages is null (the default [] replaces undefined only)
LogThrows(body) ==
    env.NODE_ENV # "production" /\ body.messages.kind = "null"

\* appendProfileToSystem: the base prompt, then the PROFIL UTILISATEUR block
\* around the profile's JSON when a profile object came with the request
appendProfileToSystem(baseSystem, profile) ==
    IF "isUndefined" \in DOMAIN profile
    THEN [base |-> baseSystem, block |-> NoObject]
    ELSE [base |-> baseSystem, block |-> [marker |-> "PROFIL UTILISATEUR", json |-> profile]]

\* the payload of a successful provider response
ProviderData ==
    [content |-> "Bonjour !", usage |-> [input_tokens |-> 10, output_tokens |-> 5]]

\* { ...data, usage: updatedUsage.usage, userTier }
SuccessBody(data, updatedUsage, userTier) ==
    [content  |-> data.content,
     usage    |-> IF "usage" \in DOMAIN updatedUsage THEN updatedUsage.usage ELSE NoObject,
     userTier |-> userTier]

\* what a caller can see of the tier handling of one request
Observed(tr, status, body) ==
    [checks   |-> SelectSeq(tr, LAMBDA ev : ev.e \in {"check", "check2"}),
     status   |-> status,
     userTier |-> IF "userTier" \in DOMAIN body THEN body.userTier ELSE UNDEF,
     usage    |-> IF "usage" \in DOMAIN body THEN body.usage ELSE NoObject]

\* res.status(status).json(body), or res.end() for the preflight
Finish(status, body, tr) ==
    /\ res' = [status |-> status, body |-> body]
    /\ trace' = Append(tr, [e |-> "response", status |-> status])
    /\ pc' = "done"
    /\ first' = IF nreq = 1
                THEN [req |-> req, obs |-> Observed(tr, status, body)]
                ELSE first

\* the catch of the handler
InternalServerError(tr) == Finish(500, [error |-> "Internal Server Error"], tr)

\* authenticateUser returns to the handler
AuthReturns(user, tr) ==
    /\ hl' = [hl EXCEPT !.authResult = AuthResultOf(user)]
    /\ trace' = Append(tr, [e |-> "auth", success |-> user # NoUser])
    /\ pc' = "auth_returned"
    /\ UNCHANGED <<res, first>>

\* the fallback of authenticateUser starts (catch of the JWT attempt)
FallbackStarts(tr) ==
    LET f == FallbackEntry(au.token)
    IN  IF f.pc = "return"
        THEN AuthReturns(au.user, tr) /\ UNCHANGED au
        ELSE /\ au' = [au EXCEPT !.lookupId = f.lookupId, !.email = f.email]
             /\ pc' = f.pc
             /\ trace' = tr
             /\ UNCHANGED <<hl, res, first>>

\* one call of the identity provider, as the trace keeps it
IdpEvent(strategy, call, arg, o) ==
    [e |-> "idp", strategy |-> strategy, call |-> call, arg |-> arg, r |-> o.r]

----------------------------------------------------------------------------
(* Chat proxy: the handler, one action per await *)

\* the first request of a behaviour arrives
Receive ==
    /\ pc = "idle" /\ nreq = 0
    /\ req' \in FirstRequests
    /\ nreq' = 1
    /\ pc' = "cors"
    /\ UNCHANGED <<env, au, hl, trace, res, tape, tpos, first>>
    /\ UNCHANGED otherVars

\* a later request arrives: the first one again, with any client-sent tier
ReceiveAgain ==
    /\ pc = "done" /\ nreq >= 1 /\ nreq < MaxRequests
    /\ \E c \in ClientTiers :
          req' = [first.req EXCEPT !.body = WithUserTier(first.req.body, c.userTier),
                                   !.xUserTier = c.xUserTier]
    /\ nreq' = nreq + 1
    /\ pc' = "cors"
    /\ au' = AuInit /\ hl' = HlInit /\ trace' = <<>> /\ res' = NoResponse
    /\ tpos' = 1
    /\ UNCHANGED <<env, tape, first>>
    /\ UNCHANGED otherVars

\* applyCors and the method test
ApplyCorsAndMethod ==
    /\ pc = "cors"
    /\ IF req.method = "OPTIONS" THEN Finish(204, NoObject, trace)
       ELSE IF req.method # "POST"
       THEN Finish(405, [error |-> "Method Not Allowed"], trace)
       ELSE pc' = "auth" /\ UNCHANGED <<trace, res, first>>
    /\ UNCHANGED <<env, req, au, hl, nreq, tape, tpos>>
    /\ UNCHANGED otherVars

\* authenticateUser up to its first await: the header test, then Try 1
Authenticate ==
    /\ pc = "auth"
    /\ IF HeaderRejected(req.authorization)
       THEN /\ hl' = [hl EXCEPT !.authResult =
                        [success |-> FALSE,
                         error |-> "Missing or invalid authorization header",
                         status |-> 401]]
            /\ trace' = Append(trace, [e |-> "auth", success |-> FALSE])
            /\ pc' = "auth_returned"
            /\ au' = au
       ELSE /\ au' = [au EXCEPT !.token = Slice(req.authorization, 7)]
            /\ pc' = "getSession"
            /\ UNCHANGED <<hl, trace>>
    /\ UNCHANGED <<env, req, res, nreq, tape, tpos, first>>
    /\ UNCHANGED otherVars

\* Try 1: sessions.getSession(token) settles
GetSessionSettles ==
    /\ pc = "getSession"
    /\ \E o \in Outcomes("getSession") :
          LET tr == Append(trace, IdpEvent(1, "getSession", au.token, o))
          IN  /\ Answered(o)
              /\ CASE o.r = "throw" ->
                        /\ pc' = "verifyToken" /\ trace' = tr
                        /\ UNCHANGED <<au, hl, res, first>>
                   [] o.r = "null" ->
                        AuthReturns(au.user, tr) /\ UNCHANGED au
                   [] o.r = "session" ->
                        /\ au' = [au EXCEPT !.lookupId = o.userId]
                        /\ pc' = "getUser1" /\ trace' = tr
                        /\ UNCHANGED <<hl, res, first>>
    /\ UNCHANGED <<env, req, nreq>>
    /\ UNCHANGED otherVars

\* Try 1: users.getUser(session.userId) settles
GetUserBySession ==
    /\ pc = "getUser1"
    /\ \E o \in Outcomes("getUser") :
          LET tr == Append(trace, IdpEvent(1, "getUser", au.lookupId, o))
          IN  /\ Answered(o)
              /\ IF o.r = "throw"
                 THEN /\ pc' = "verifyToken" /\ trace' = tr
                      /\ UNCHANGED <<au, hl, res, first>>
                 ELSE /\ au' = [au EXCEPT !.user = ClerkUser(au.lookupId)]
                      /\ AuthReturns(ClerkUser(au.lookupId), tr)
    /\ UNCHANGED <<env, req, nreq>>
    /\ UNCHANGED otherVars

\* Try 2: verifyToken(token) settles
VerifyTokenSettles ==
    /\ pc = "verifyToken"
    /\ \E o \in Outcomes("verifyToken") :
          LET tr == Append(trace, IdpEvent(2, "verifyToken", au.token, o))
          IN  /\ Answered(o)
              /\ CASE o.r = "throw" -> FallbackStarts(tr)
                   [] o.r = "nosub" -> AuthReturns(au.user, tr) /\ UNCHANGED au
                   [] o.r = "sub" ->
                        /\ au' = [au EXCEPT !.lookupId = o.sub]
                        /\ pc' = "getUser2" /\ trace' = tr
                        /\ UNCHANGED <<hl, res, first>>
    /\ UNCHANGED <<env, req, nreq>>
    /\ UNCHANGED otherVars

\* Try 2: users.getUser(verifiedToken.sub) settles
GetUserBySubject ==
    /\ pc = "getUser2"
    /\ \E o \in Outcomes("getUser") :
          LET tr == Append(trace, IdpEvent(2, "getUser", au.lookupId, o))
          IN  /\ Answered(o)
              /\ IF o.r = "throw"
                 THEN FallbackStarts(tr)
                 ELSE /\ au' = [au EXCEPT !.user = ClerkUser(au.lookupId)]
                      /\ AuthReturns(ClerkUser(au.lookupId), tr)
    /\ UNCHANGED <<env, req, nreq>>
    /\ UNCHANGED otherVars

\* Try 3: users.getUser(userId) of the decoded email:userId settles.  The
\* result is assigned to user before the e-mail is compared; a mismatch
\* throws into the catch that fetches the raw token as a user id, and user
\* keeps the value assigned here.
GetUserByComposite ==
    /\ pc = "getUser3"
    /\ \E o \in Outcomes("getUser") :
          LET tr == Append(trace, IdpEvent(3, "getUser", au.lookupId, o))
              u  == ClerkUser(au.lookupId)
          IN  /\ Answered(o)
              /\ IF o.r = "throw"
                 THEN /\ au' = [au EXCEPT !.lookupId = au.token]
                      /\ pc' = "getUser4" /\ trace' = tr
                      /\ UNCHANGED <<hl, res, first>>
                 ELSE IF u.email # au.email
                 THEN /\ au' = [au EXCEPT !.user = u, !.lookupId = au.token]
                      /\ pc' = "getUser4" /\ trace' = tr
                      /\ UNCHANGED <<hl, res, first>>
                 ELSE /\ au' = [au EXCEPT !.user = u]
                      /\ AuthReturns(u, tr)
    /\ UNCHANGED <<env, req, nreq>>
    /\ UNCHANGED otherVars

\* Try 4: users.getUser(token) settles.  When it throws, the outer catch
\* only logs, and user is whatever it was.
GetUserByToken ==
    /\ pc = "getUser4"
    /\ \E o \in Outcomes("getUser") :
          LET tr == Append(trace, IdpEvent(4, "getUser", au.lookupId, o))
          IN  /\ Answered(o)
              /\ IF o.r = "throw"
                 THEN AuthReturns(au.user, tr) /\ UNCHANGED au
                 ELSE /\ au' = [au EXCEPT !.user = ClerkUser(au.lookupId)]
                      /\ AuthReturns(ClerkUser(au.lookupId), tr)
    /\ UNCHANGED <<env, req, nreq>>
    /\ UNCHANGED otherVars

\* the handler takes the result of authenticateUser and calls checkUsageLimit
HandleAuthResult ==
    /\ pc = "auth_returned"
    /\ IF ~hl.authResult.success
       THEN /\ Finish(hl.authResult.status, [error |-> hl.authResult.error], trace)
            /\ hl' = hl
       ELSE LET userId   == hl.authResult.userId
                userTier == HandlerTier(hl.authResult, req)
                result   == checkUsageLimit(userId, userTier)
            IN  /\ hl' = [hl EXCEPT !.usageCheck = result]
                /\ trace' = Append(trace, [e |-> "check", userId |-> userId,
                                           userTier |-> userTier, result |-> result])
                /\ pc' = "check_returned"
                /\ UNCHANGED <<res, first>>
    /\ UNCHANGED <<env, req, au, nreq, tape, tpos>>
    /\ UNCHANGED otherVars

\* from the usage check to the call of the LLM provider
AfterUsageCheck ==
    /\ pc = "check_returned"
    /\ LET userTier == HandlerTier(hl.authResult, req)
           body     == BodyOrEmpty(req.body)
           tr1      == Append(trace, [e |-> "apikey", present |-> ~ApiKeyMissing(env.CLAUDE_API_KEY)])
           base     == IF Truthy(body.system) THEN body.system ELSE "BASE_SYSTEM"
           system   == appendProfileToSystem(base, body.profile)
           tr2      == Append(tr1, [e |-> "compose", system |-> system])
       IN  IF ~hl.usageCheck.allowed
           THEN /\ Finish(429, [error     |-> "Usage limit exceeded",
                                reason    |-> hl.usageCheck.reason,
                                usage     |-> IF "usage" \in DOMAIN hl.usageCheck
                                              THEN hl.usageCheck.usage ELSE NoObject,
                                userTier  |-> userTier,
                                resetTime |-> "next local midnight"], trace)
                /\ hl' = hl
           ELSE IF ApiKeyMissing(env.CLAUDE_API_KEY)
           THEN /\ Finish(500, [error |-> "Server configuration error"], tr1)
                /\ hl' = hl
           ELSE IF LogThrows(body)
           THEN InternalServerError(tr1) /\ hl' = hl
           ELSE /\ hl' = [hl EXCEPT !.system = system]
                /\ trace' = Append(tr2, [e |-> "llm_call"])
                /\ pc' = "fetch"
                /\ UNCHANGED <<res, first>>
    /\ UNCHANGED <<env, req, au, nreq, tape, tpos>>
    /\ UNCHANGED otherVars

\* fetch settles: a network failure, or a response whose body is then read
FetchSettles ==
    /\ pc = "fetch"
    /\ \E o \in Outcomes("fetch") :
          /\ Answered(o)
          /\ IF o.r = "throw"
             THEN /\ InternalServerError(Append(trace, [e |-> "llm_failed"]))
                  /\ hl' = hl
             ELSE /\ hl' = [hl EXCEPT !.status = o.status]
                  /\ trace' = Append(trace, [e |-> "llm_response", status |-> o.status])
                  /\ pc' = IF RespOk(o.status) THEN "json" ELSE "text"
                  /\ UNCHANGED <<res, first>>
    /\ UNCHANGED <<env, req, au, nreq>>
    /\ UNCHANGED otherVars

\* resp.text() of a non-ok response settles
ErrorBodyRead ==
    /\ pc = "text"
    /\ \E o \in Outcomes("text") :
          /\ Answered(o)
          /\ LET tr == Append(trace, [e |-> "error_body", r |-> o.r])
             IN  IF o.r = "throw"
                 THEN InternalServerError(tr)
                 ELSE Finish(ClientStatus(hl.status),
                             [error |-> ClientError(hl.status)], tr)
    /\ UNCHANGED <<env, req, au, hl, nreq>>
    /\ UNCHANGED otherVars

\* resp.json() of an ok response settles; then incrementUsage is called
JsonRead ==
    /\ pc = "json"
    /\ \E o \in Outcomes("json") :
          /\ Answered(o)
          /\ IF o.r = "throw"
             THEN InternalServerError(trace)
             ELSE /\ trace' = Append(trace, [e |-> "increment",
                                             userId |-> hl.authResult.userId,
                                             returned |-> incrementUsage(hl.authResult.userId).returned])
                  /\ pc' = "increment_returned"
                  /\ UNCHANGED <<res, first>>
    /\ UNCHANGED <<env, req, au, hl, nreq>>
    /\ UNCHANGED otherVars

\* the second checkUsageLimit
AfterIncrement ==
    /\ pc = "increment_returned"
    /\ LET userId   == hl.authResult.userId
           userTier == HandlerTier(hl.authResult, req)
           result   == checkUsageLimit(userId, userTier)
       IN  /\ hl' = [hl EXCEPT !.updatedUsage = result]
           /\ trace' = Append(trace, [e |-> "check2", userId |-> userId,
                                      userTier |-> userTier, result |-> result])
           /\ pc' = "check2_returned"
    /\ UNCHANGED <<env, req, au, res, nreq, tape, tpos, first>>
    /\ UNCHANGED otherVars

\* the 200 response
SendSuccess ==
    /\ pc = "check2_returned"
    /\ Finish(200, SuccessBody(ProviderData, hl.updatedUsage,
                               HandlerTier(hl.authResult, req)), trace)
    /\ UNCHANGED <<env, req, au, hl, nreq, tape, tpos>>
    /\ UNCHANGED otherVars

ChatIdle ==
    /\ req = NoRequest /\ pc = "idle" /\ au = AuInit /\ hl = HlInit
    /\ trace = <<>> /\ res = NoResponse /\ nreq = 0 /\ tape = <<>> /\ tpos = 0
    /\ first = NoFirst

TierIdle == tUser = NoUser /\ tTier = UNDEF

UsageIdle == uCall = [op |-> "none"] /\ uResult = Pending /\ uCount = 0 /\ uLogged = 0

ProfileIdle == pReq = NoRequest /\ pRes = NoResponse /\ pNow = 0

JsonIdle == jObj = NoObject /\ jOut = Undefined

Init ==
    /\ env \in {[CLAUDE_API_KEY |-> UNDEF, NODE_ENV |-> UNDEF],
                [CLAUDE_API_KEY |-> "", NODE_ENV |-> "production"],
                [CLAUDE_API_KEY |-> "sk-ant-key", NODE_ENV |-> UNDEF],
                [CLAUDE_API_KEY |-> "sk-ant-key", NODE_ENV |-> "production"]}
    /\ ChatIdle /\ TierIdle /\ UsageIdle /\ ProfileIdle /\ JsonIdle

Next ==
    \/ Receive
    \/ ReceiveAgain
    \/ ApplyCorsAndMethod
    \/ Authenticate
    \/ GetSessionSettles
    \/ GetUserBySession
    \/ VerifyTokenSettles
    \/ GetUserBySubject
    \/ GetUserByComposite
    \/ GetUserByToken
    \/ HandleAuthResult
    \/ AfterUsageCheck
    \/ FetchSettles
    \/ ErrorBodyRead
    \/ JsonRead
    \/ AfterIncrement
    \/ SendSuccess

Spec == Init /\ [][Next]_vars

----------------------------------------------------------------------------
(* getUserTier on its own *)

TierUsers ==
    [id              : {IdU1},
     firstName       : {"Alice"},
     email           : {Undefined, EmailAlice, EmailBob, EmailCarol,
                        EmailAlice \o <<".", "f", "r">>},
     publicMetadata  : {NoObject, EmptyObject, [tier |-> "beta"], [tier |-> ""],
                        [betaAccess |-> TRUE], [betaAccess |-> FALSE],
                        [tier |-> "premium", betaAccess |-> TRUE]},
     privateMetadata : {NoObject, EmptyObject, [tier |-> "premium"],
                        [tier |-> "free"], [tier |-> ""]}]

InitTier ==
    /\ tUser \in TierUsers /\ tTier = UNDEF
    /\ env = [CLAUDE_API_KEY |-> UNDEF, NODE_ENV |-> UNDEF]
    /\ ChatIdle /\ UsageIdle /\ ProfileIdle /\ JsonIdle

ComputeTier ==
    /\ tTier = UNDEF
    /\ tTier' = getUserTier(tUser)
    /\ UNCHANGED <<tUser, chatVars, usageVars, profVars, jsonVars>>

NextTier == ComputeTier

SpecTier == InitTier /\ [][NextTier]_vars

----------------------------------------------------------------------------
(* The usage limiter on its own *)

UsageTiers ==
    {"free", "beta", "premium", "gold", "Free", "", "constructor", "toString"}

UsageUsers == {IdU1, IdU2}

InitUsage ==
    /\ UsageIdle
    /\ env = [CLAUDE_API_KEY |-> UNDEF, NODE_ENV |-> UNDEF]
    /\ ChatIdle /\ TierIdle /\ ProfileIdle /\ JsonIdle

Check ==
    /\ uCount < MaxOps
    /\ \E userId \in UsageUsers, userTier \in UsageTiers :
          /\ uCall' = [op |-> "check", userId |-> userId, userTier |-> userTier]
          /\ uResult' = checkUsageLimit(userId, userTier)
    /\ uCount' = uCount + 1
    /\ UNCHANGED <<uLogged, chatVars, tierVars, profVars, jsonVars>>

Increment ==
    /\ uCount < MaxOps
    /\ \E userId \in UsageUsers :
          /\ uCall' = [op |-> "increment", userId |-> userId, userTier |-> UNDEF]
          /\ uResult' = [allowed |-> incrementUsage(userId).returned]
    /\ uCount' = uCount + 1
    /\ uLogged' = uLogged + 1
    /\ UNCHANGED <<chatVars, tierVars, profVars, jsonVars>>

NextUsage == Check \/ Increment

SpecUsage == InitUsage /\ [][NextUsage]_vars

----------------------------------------------------------------------------
(* Profile intake (api/profile.js) *)

\* request bodies as the platform's body parser hands them over
JsUndefined == [type |-> "undefined", falsy |-> TRUE]
JsNull      == [type |-> "null", falsy |-> TRUE]
ProfileBodies ==
    {JsUndefined, JsNull,
     [type |-> "object", falsy |-> FALSE, keys |-> 0],
     [type |-> "object", falsy |-> FALSE, keys |-> 2],
     [type |-> "array", falsy |-> FALSE, keys |-> 0],
     [type |-> "string", falsy |-> FALSE, text |-> "not an object"],
     [type |-> "string", falsy |-> TRUE, text |-> ""],
     [type |-> "number", falsy |-> FALSE, n |-> 42],
     [type |-> "number", falsy |-> TRUE, n |-> 0],
     [type |-> "boolean", falsy |-> FALSE, b |-> TRUE],
     [type |-> "boolean", falsy |-> TRUE, b |-> FALSE]}

\* typeof v === 'object' : objects, arrays and null
TypeofObject(v) == v.type \in {"object", "array", "null"}

\* req.body || {}
BodyOrEmptyObject(v) ==
    IF v.falsy THEN [type |-> "object", falsy |-> FALSE, keys |-> 0] ELSE v

ProfileMethods == {"POST", "GET", "OPTIONS", "PUT"}

InitProfile ==
    /\ ProfileIdle
    /\ env = [CLAUDE_API_KEY |-> UNDEF, NODE_ENV |-> UNDEF]
    /\ ChatIdle /\ TierIdle /\ UsageIdle /\ JsonIdle

ProfileReceive ==
    /\ pReq = NoRequest \/ pRes # NoResponse
    /\ \E m \in ProfileMethods, b \in ProfileBodies :
          pReq' = [method |-> m, body |-> b]
    /\ pRes' = NoResponse
    /\ UNCHANGED <<pNow, chatVars, tierVars, usageVars, jsonVars>>

\* the clock moves
Tick ==
    /\ pNow < MaxClock
    /\ pNow' = pNow + 1
    /\ UNCHANGED <<pReq, pRes, chatVars, tierVars, usageVars, jsonVars>>

\* the whole handler: it awaits nothing
ProfileHandler ==
    /\ pReq # NoRequest /\ pRes = NoResponse
    /\ LET profile == BodyOrEmptyObject(pReq.body)
       IN  pRes' =
             IF pReq.method = "OPTIONS" THEN [status |-> 200, body |-> NoObject]
             ELSE IF pReq.method # "POST"
             THEN [status |-> 405, body |-> [error |-> "Method not allowed"]]
             ELSE IF profile.falsy \/ ~TypeofObject(profile)
             THEN [status |-> 400, body |-> [error |-> "Invalid profile payload"]]
             ELSE [status |-> 200, body |-> [ok |-> TRUE, receivedAt |-> pNow]]
    /\ UNCHANGED <<pReq, pNow, chatVars, tierVars, usageVars, jsonVars>>

NextProfile == ProfileReceive \/ Tick \/ ProfileHandler

SpecProfile == InitProfile /\ [][NextProfile]_vars

----------------------------------------------------------------------------
(* Profile serialisation (safeJSONString, api/claude.js) *)

\* safeJSONString(profile, 4000): the cap passed by appendProfileToSystem
ProfileMaxLen == 4000

\* Object.keys(obj).slice(0, 20): the keys kept when the full form is too long
FallbackKeys == 20

\* the '...' that ends a cut string
Ellipsis == <<".", ".", ".">>

DecimalDigits == <<"0", "1", "2", "3", "4", "5", "6", "7", "8", "9">>

\* String(i) for an array index i >= 0
RECURSIVE DecimalString(_)
DecimalString(i) ==
    IF i < 10 THEN <<DecimalDigits[i + 1]>>
    ELSE DecimalString(i \div 10) \o <<DecimalDigits[(i % 10) + 1]>>

\* a profile is an object or an array (typeof 'object' for both) of string
\* values; entries stand in Object.keys order, an array's keys being its
\* indices "0", "1", ...
ValueLens == {0, 191, 400}

ProfileObject(isArray, n, len, extra) ==
    [isArray |-> isArray,
     entries |-> [i \in 1..n |->
        [key   |-> IF isArray THEN DecimalString(i - 1)
                   ELSE <<"k">> \o DecimalString(i),
         value |-> [c \in 1..(IF i = 1 THEN len + extra ELSE len) |-> "v"]]]]

ProfileObjects ==
    {ProfileObject(a, n, len, extra) :
        a \in BOOLEAN, n \in 0..MaxKeys, len \in ValueLens, extra \in 0..MaxExtra}

\* JSON text of a string of letters and digits: the string between quotes
\* (nothing in it needs an escape)
JSONQuote(str) == <<"<dquote>">> \o str \o <<"<dquote>">>

RECURSIVE JoinComma(_)
JoinComma(parts) ==
    IF parts = <<>> THEN <<>>
    ELSE IF Len(parts) = 1 THEN parts[1]
    ELSE parts[1] \o <<",">> \o JoinComma(Tail(parts))

\* JSON.stringify(value) of an array or an object of strings, no indentation
JSONStringify(o) ==
    IF o.isArray
    THEN <<"[">>
         \o JoinComma([i \in DOMAIN o.entries |-> JSONQuote(o.entries[i].value)])
         \o <<"]">>
    ELSE <<"{">>
         \o JoinComma([i \in DOMAIN o.entries |->
                JSONQuote(o.entries[i].key) \o <<":">> \o JSONQuote(o.entries[i].value)])
         \o <<"}">>

\* Object.keys(obj)
ObjectKeys(o) == [i \in DOMAIN o.entries |-> o.entries[i].key]

\* Array.prototype.slice(0, n) and String.prototype.slice(0, n), n >= 0
SliceTo(s, n) == SubSeq(s, 1, IF Len(s) < n THEN Len(s) ELSE n)

\* obj[k] for an own key k
Get(o, k) == (CHOOSE e \in {o.entries[i] : i \in DOMAIN o.entries} : e.key = k).value

\* keys.reduce((a, k) => ((a[k] = obj[k]), a), {}) : a plain object with the
\* given keys of obj, in that order
PickKeys(o, keys) ==
    [isArray |-> FALSE,
     entries |-> [i \in DOMAIN keys |-> [key |-> keys[i], value |-> Get(o, keys[i])]]]

\* safeJSONString with the cut taken at maxLen instead of maxLen - 3
safeJSONStringNoRoomForEllipsis(obj, maxLen) ==
    LET s == JSONStringify(obj)
    IN  IF Len(s) <= maxLen THEN s
        ELSE LET keys == SliceTo(ObjectKeys(obj), FallbackKeys)
                 out  == JSONStringify(PickKeys(obj, keys))
             IN  IF Len(out) > maxLen
                 THEN SliceTo(out, maxLen) \o Ellipsis
                 ELSE out

\* safeJSONString(obj, maxLen). JSON.stringify does not throw on an array or
\* an object of strings, so the catch that returns '{}' is never entered.
safeJSONString(obj, maxLen) ==
    LET s == JSONStringify(obj)
    IN  IF Len(s) <= maxLen THEN s
        ELSE LET keys == SliceTo(ObjectKeys(obj), FallbackKeys)
                 out  == JSONStringify(PickKeys(obj, keys))
             IN  IF Len(out) > maxLen
                 THEN SliceTo(out, maxLen - 3) \o Ellipsis
                 ELSE out

InitJson ==
    /\ jObj \in ProfileObjects
    /\ jOut = Undefined
    /\ env = [CLAUDE_API_KEY |-> UNDEF, NODE_ENV |-> UNDEF]
    /\ ChatIdle /\ TierIdle /\ UsageIdle /\ ProfileIdle

\* const json = safeJSONString(profile, 4000)
SerializeProfile ==
    /\ jOut = Undefined
    /\ jOut' = safeJSONString(jObj, ProfileMaxLen)
    /\ UNCHANGED <<jObj, chatVars, tierVars, usageVars, profVars>>

NextJson == SerializeProfile

SpecJson == InitJson /\ [][NextJson]_vars

----------------------------------------------------------------------------
(* Reading the trace *)

\* authenticateUser has returned to the handler in this invocation
AuthReturned == "pending" \notin DOMAIN hl.authResult

\* some event of the trace is an e-event
Happened(e) == \E i \in 1..Len(trace) : trace[i].e = e

\* the identity provider was called for strategy n and the call settled with r
IdpSettled(n, call, r) ==
    \E i \in 1..Len(trace) :
        /\ trace[i].e = "idp" /\ trace[i].strategy = n
        /\ trace[i].call = call /\ trace[i].r = r

\* the e-mail part of the decoded email:userId token
DecodedEmail == SplitFirstTwo(Base64Decode(au.token))[1]

\* the user-id part of the decoded email:userId token
DecodedUserId == SplitFirstTwo(Base64Decode(au.token))[2]

\* the base64 composite strategy fetched its user and the e-mails differ
CompositeMismatch ==
    /\ IdpSettled(3, "getUser", "user")
    /\ ClerkUser(DecodedUserId).email # DecodedEmail

InvalidToken401 ==
    [success |-> FALSE, error |-> "Invalid authentication token", status |-> 401]

MissingHeader401 ==
    [success |-> FALSE, error |-> "Missing or invalid authorization header",
     status |-> 401]

\* the idp event ev is a strategy yielding a user record: a user fetched, and
\* for the base64 composite one whose primary e-mail is the decoded e-mail
Yielded(ev) ==
    /\ ev.e = "idp" /\ ev.call = "getUser" /\ ev.r = "user"
    /\ ev.strategy = 3 => ClerkUser(ev.arg).email = DecodedEmail

\* place of a handler event in the pipeline; 0 for an identity-provider call
Rank(ev) ==
    CASE ev.e = "idp"          -> 0
      [] ev.e = "auth"         -> 1
      [] ev.e = "check"        -> 2
      [] ev.e = "apikey"       -> 3
      [] ev.e = "compose"      -> 4
      [] ev.e = "llm_call"     -> 5
      [] ev.e = "llm_response" -> 6
      [] ev.e = "llm_failed"   -> 6
      [] ev.e = "error_body"   -> 7
      [] ev.e = "increment"    -> 7
      [] ev.e = "check2"       -> 8
      [] ev.e = "response"     -> 9

\* an e-event satisfying P comes before position i
Before(i, e) == \E j \in 1..(i - 1) : trace[j].e = e

----------------------------------------------------------------------------
(* Claims *)

\* C1 (as claimed): after an e-mail mismatch in the base64 composite
\* strategy, authenticateUser returns the user found by looking the raw
\* token up as a user id, or 401 "Invalid authentication token" when that
\* lookup finds nobody; the user whose e-mail did not match is never the
\* authenticated identity.
C1_MismatchedUserNeverAuthenticated ==
    (AuthReturned /\ CompositeMismatch) =>
        /\ IdpSettled(4, "getUser", "user") =>
              /\ hl.authResult.success
              /\ hl.authResult.user = ClerkUser(au.token)
        /\ IdpSettled(4, "getUser", "throw") => hl.authResult = InvalidToken401
        /\ hl.authResult.success => hl.authResult.userId # DecodedUserId

\* C2: the handler's steps come in the order authentication, usage check,
\* API-key check, prompt composition, LLM call, usage increment, second
\* usage check, response; identity-provider calls all precede the return of
\* authentication; the LLM is called at most once and only after a
\* successful authentication, an allowing check and a present key; the
\* increment comes only after an ok provider response and in no invocation
\* that ends in a failure; a 200 ran every step.
C2_PipelineOrder ==
    /\ \A i, j \in 1..Len(trace) :
          i < j => \/ Rank(trace[i]) < Rank(trace[j])
                   \/ Rank(trace[i]) = 0 /\ Rank(trace[j]) = 0
    /\ Cardinality({i \in 1..Len(trace) : trace[i].e = "llm_call"}) <= 1
    /\ \A i \in 1..Len(trace) :
          /\ trace[i].e = "llm_call" =>
                /\ \E j \in 1..(i - 1) : trace[j].e = "auth" /\ trace[j].success
                /\ \E j \in 1..(i - 1) : trace[j].e = "check" /\ trace[j].result.allowed
                /\ \E j \in 1..(i - 1) : trace[j].e = "apikey" /\ trace[j].present
                /\ Before(i, "compose")
          /\ trace[i].e = "increment" =>
                \E j \in 1..(i - 1) :
                    /\ trace[j].e = "llm_response"
                    /\ trace[j].status >= 200 /\ trace[j].status <= 299
          /\ trace[i].e = "check2" => Before(i, "increment")
          /\ trace[i].e = "check" => Before(i, "auth")
    /\ (pc = "done" /\ res.status # 200) => ~Happened("increment")
    /\ (pc = "done" /\ res.status = 200) =>
          [i \in 1..Len(trace) |-> Rank(trace[i])] \in
              {pre \o <<1, 2, 3, 4, 5, 6, 7, 8, 9>> :
                  pre \in {<<0>>, <<0, 0>>, <<0, 0, 0>>, <<0, 0, 0, 0>>,
                           <<0, 0, 0, 0, 0>>, <<0, 0, 0, 0, 0, 0>>}}

\* C2 witness: a first request answered 200 after an LLM call and an increment
C2_Witness ==
    /\ pc = "done" /\ res.status = 200 /\ nreq = 1
    /\ Happened("llm_call") /\ Happened("increment") /\ Happened("check2")

\* C3 (as claimed): the identity-provider strategies are tried in the order
\* session, verified token, base64 composite, direct user id; nothing is
\* tried after a strategy has yielded a user; and authenticateUser answers
\* 401 "Invalid authentication token" exactly when no strategy yielded one.
C3_FirstYieldingStrategyWins ==
    /\ \A i, j \in 1..Len(trace) :
          (i < j /\ trace[i].e = "idp" /\ trace[j].e = "idp") =>
              /\ trace[i].strategy <= trace[j].strategy
              /\ ~Yielded(trace[i])
    /\ (AuthReturned /\ Happened("idp")) =>
          (hl.authResult = InvalidToken401
              <=> ~\E i \in 1..Len(trace) : Yielded(trace[i]))

\* the header is absent, empty, or does not begin with "Bearer "
BadAuthorization(h) ==
    \/ h = Undefined
    \/ Len(h) = 0
    \/ Len(h) < 7
    \/ \E k \in 1..7 : h[k] # BearerPrefix[k]

\* C5: a request whose Authorization header is absent, empty or without the
\* "Bearer " prefix never reaches the identity provider, the usage check or
\* the LLM provider, and authenticateUser answers it with
\* 401 "Missing or invalid authorization header", which the handler relays.
C5_BadHeaderRejectedWithoutCalls ==
    (req # NoRequest /\ BadAuthorization(req.authorization)) =>
        /\ ~Happened("idp") /\ ~Happened("check") /\ ~Happened("llm_call")
        /\ nreq = 1 => tape = <<>>
        /\ AuthReturned => hl.authResult = MissingHeader401
        /\ (pc = "done" /\ req.method = "POST") =>
              res = [status |-> 401,
                     body |-> [error |-> "Missing or invalid authorization header"]]

\* C5 witness: a POST with a Basic header answered 401
C5_Witness ==
    /\ pc = "done" /\ req.method = "POST" /\ req.authorization = HdrBasic
    /\ res.status = 401

\* C7: with no LLM API key, an authenticated POST that the usage check
\* allows is answered 500 "Server configuration error", with no call to the
\* LLM provider and no usage increment.
C7_MissingKeyStopsBeforeProvider ==
    (env.CLAUDE_API_KEY = UNDEF) =>
        /\ ~Happened("llm_call") /\ ~Happened("increment")
        /\ ~\E i \in 1..Len(tape) : tape[i].kind = "fetch"
        /\ (pc = "done" /\ hl.authResult.success /\ hl.usageCheck.allowed) =>
              res = [status |-> 500, body |-> [error |-> "Server configuration error"]]

\* C7 witness: an authenticated, allowed request answered 500 for want of a key
C7_Witness ==
    /\ pc = "done" /\ env.CLAUDE_API_KEY = UNDEF
    /\ hl.authResult.success /\ hl.usageCheck.allowed /\ res.status = 500

\* the provider answered this invocation with a non-ok status
NonOkProviderStatus == hl.status # 0 /\ ~(hl.status >= 200 /\ hl.status <= 299)

\* the mapping of a provider status to what the caller gets
MappedResponse(st) ==
    [status |-> IF st >= 500 THEN 500 ELSE st,
     body   |-> [error |-> IF st >= 500 THEN "Internal server error"
                           ELSE "API request failed"]]

\* C8 (as claimed): every non-ok provider status s is answered with 500
\* "Internal server error" when s >= 500 and with s "API request failed"
\* otherwise.
C8_EveryNonOkStatusMapped ==
    (pc = "done" /\ NonOkProviderStatus) => res = MappedResponse(hl.status)

\* C8 (amended): a non-ok provider status s whose body the handler could
\* read is answered with 500 "Internal server error" when s >= 500 and with
\* s "API request failed" otherwise; when reading the body fails the answer
\* is 500 "Internal Server Error"; in both cases the body is that one error
\* string and the answer is never 200.
C8_NonOkStatusMappedOnceBodyRead ==
    (pc = "done" /\ NonOkProviderStatus) =>
        /\ \E i \in 1..Len(trace) : trace[i].e = "error_body"
        /\ \A i \in 1..Len(trace) :
              /\ (trace[i].e = "error_body" /\ trace[i].r = "ok") =>
                    res = MappedResponse(hl.status)
              /\ (trace[i].e = "error_body" /\ trace[i].r = "throw") =>
                    res = [status |-> 500, body |-> [error |-> "Internal Server Error"]]
        /\ res.status # 200
        /\ DOMAIN res.body = {"error"}

\* C8 witness: the provider answered 503, its body was read, the caller got 500
C8_Witness ==
    /\ pc = "done" /\ hl.status = 503 /\ res.status = 500
    /\ \E i \in 1..Len(trace) : trace[i].e = "error_body" /\ trace[i].r = "ok"

\* the two requests differ at most in the client-sent tier
SameButClientTier(r1, r2) ==
    /\ r1.method = r2.method /\ r1.authorization = r2.authorization
    /\ [BodyOrEmpty(r1.body) EXCEPT !.userTier = UNDEF]
         = [BodyOrEmpty(r2.body) EXCEPT !.userTier = UNDEF]

\* C10: two requests that differ only in the client-sent tier (body userTier
\* or x-user-tier header), answered alike by the providers, get the same
\* usage checks (inputs and results), the same status and the same userTier
\* and usage in the response.
C10_ClientTierIgnored ==
    (pc = "done" /\ nreq > 1 /\ SameButClientTier(req, first.req)) =>
        Observed(trace, res.status, res.body) = first.obs

\* C10 witness: a 200 for a request that differs from the first in the
\* client-sent tier only
C10_Witness ==
    /\ pc = "done" /\ nreq > 1 /\ res.status = 200
    /\ SameButClientTier(req, first.req)
    /\ req.body.userTier # first.req.body.userTier

\* the metadata object m carries a tier (a non-empty one)
HasTier(m) == "tier" \in DOMAIN m /\ m.tier # ""

\* the e-mail is one of the allow-listed domains' addresses
AllowListed(email) ==
    /\ email # Undefined
    /\ \E d \in {AtticusConseilDomain, AtticusDomain} :
          /\ Len(email) >= Len(d)
          /\ \A k \in 1..Len(d) : email[Len(email) - Len(d) + k] = d[k]

\* C9: the tier is the private-metadata tier if there is one, else the
\* public-metadata tier if there is one, else beta for an allow-listed
\* e-mail domain or a set betaAccess flag, else free.
C9_TierPriority ==
    (tTier # UNDEF) =>
        LET priv == tUser.privateMetadata
            pub  == tUser.publicMetadata
            beta == \/ AllowListed(tUser.email)
                    \/ ("betaAccess" \in DOMAIN pub /\ pub.betaAccess)
        IN  /\ HasTier(priv) => tTier = priv.tier
            /\ (~HasTier(priv) /\ HasTier(pub)) => tTier = pub.tier
            /\ (~HasTier(priv) /\ ~HasTier(pub) /\ beta) => tTier = "beta"
            /\ (~HasTier(priv) /\ ~HasTier(pub) /\ ~beta) => tTier = "free"

\* C9 witness: a user with different private and public tiers got a tier
C9_Witness ==
    /\ tTier # UNDEF
    /\ HasTier(tUser.privateMetadata) /\ HasTier(tUser.publicMetadata)
    /\ tUser.privateMetadata.tier # tUser.publicMetadata.tier

\* C6 (as claimed): whatever was checked and incremented before, Check
\* depends on the tier alone: a tier of the quota table is allowed with
\* usage {used: 0, limit}, limit being free=12, beta=25, premium=25, and any
\* other tier string is refused with "Invalid user tier".
C6_CheckDependsOnTierOnly ==
    (uCall.op = "check") =>
        LET limit == [free |-> 12, beta |-> 25, premium |-> 25]
        IN  IF uCall.userTier \in {"free", "beta", "premium"}
            THEN uResult = [allowed |-> TRUE,
                            usage |-> [used |-> 0, limit |-> limit[uCall.userTier]]]
            ELSE uResult = [allowed |-> FALSE, reason |-> [text |-> "Invalid user tier"]]

\* C4 (as claimed): a POST with a JSON object for a body (the empty one
\* included) is answered 200 with ok:true and a receivedAt; a POST with
\* anything else for a body, or none, is answered 400 "Invalid profile
\* payload".
C4_ProfilePostNeedsObject ==
    (pReq # NoRequest /\ pReq.method = "POST" /\ pRes # NoResponse) =>
        IF pReq.body.type = "object"
        THEN /\ pRes.status = 200
             /\ DOMAIN pRes.body = {"ok", "receivedAt"} /\ pRes.body.ok
        ELSE pRes = [status |-> 400, body |-> [error |-> "Invalid profile payload"]]

\* C11: safeJSONString with the 4000-character cap returns at most 4000
\* characters for every profile object; a full JSON form that fits is
\* returned unchanged; a longer one is replaced by the JSON form of the
\* object's first 20 top-level keys (fewer when it has fewer), in key order,
\* itself cut to its first 3997 characters followed by "..." when it is
\* still over the cap.
C11_SerializedProfileCapped ==
    (jOut # Undefined) =>
        LET full  == JSONStringify(jObj)
            n     == Len(jObj.entries)
            first20 == [isArray |-> FALSE,
                        entries |-> SubSeq(jObj.entries, 1, IF n < 20 THEN n ELSE 20)]
            short == JSONStringify(first20)
        IN  /\ Len(jOut) <= 4000
            /\ Len(full) <= 4000 => jOut = full
            /\ Len(full) > 4000 =>
                  IF Len(short) <= 4000 THEN jOut = short
                  ELSE jOut = SubSeq(short, 1, 3997) \o <<".", ".", ".">>

\* C11 witness: an object of more than 20 keys, too long in full and still
\* too long with its first 20 keys, came back cut to the cap
C11_Witness ==
    /\ jOut # Undefined
    /\ ~jObj.isArray /\ Len(jObj.entries) > 20
    /\ Len(JSONStringify(jObj)) > 4000
    /\ Len(jOut) = 4000 /\ EndsWith(jOut, <<".", ".", ".">>)

====
